---- MODULE Spec2Model ----
(***************************************************************************)
(* Model of the AFAP permit backend (src/server.py, src/models.py,         *)
(* src/email_service.py).  The Mongo collections are the state, every      *)
(* request handler is cut into atomic steps at its awaits on the database, *)
(* and the handlers of different requests interleave at those steps.       *)
(***************************************************************************)
EXTENDS Integers, Sequences, FiniteSets, TLC

VARIABLES
    users,          \* db.users: set of user documents
    afap,           \* db.afap: sequence of permit documents, in insertion order
    download_logs,  \* db.download_logs: sequence of DownloadLog documents
    download_history, \* db.download_history: the collection GET /admin/descargas reads
    inspecciones,   \* db.inspecciones: sequence of Inspeccion documents
    now,            \* the wall clock, in seconds
    req,            \* req[p]: the request in flight on connection p, with its locals
    resp,           \* output: the response returned by the step just taken
    mails,          \* output: the notification attempts made by the step just taken
    tmp             \* the files under /tmp: pairs <<path, content>>, one per path

vars == <<users, afap, download_logs, download_history, inspecciones, now, req, resp, mails, tmp>>

\* ---------------------------------------------------------------- bounds

\* Number of connections whose requests may be in flight together.
MaxProcs == 2
\* Cap on the number of permits created in one behaviour: where permits are
\* only created (MaxAfap), and where they are also updated (MaxPermits).
MaxAfap == 2
MaxPermits == 1
\* Cap on the number of DownloadLog documents written in one behaviour.
MaxLogs == 1
\* Cap on the number of Inspeccion documents written in one behaviour.
MaxInspecciones == 2
\* Cap on the number of users registered in one behaviour.
MaxUsers == 2

Procs == 1..MaxProcs

\* ------------------------------------------------------- program constants

FirstNumber == 1001
ListLimit == 1000
DaysValid == 30
DownloadsLimit == 100

None == "None"

\* ------------------------------------------------------------------ data

\* The users written by POST /seed.
SeedUsers ==
    { [id |-> "user-1", email |-> "ciudadano@argentina.gob.ar", cuit_cuil |-> "20123456789",
       nombre |-> "Juan", apellido |-> "Perez", role |-> "ciudadano"],
      [id |-> "user-2", email |-> "inspector@argentina.gob.ar", cuit_cuil |-> "20987654321",
       nombre |-> "Maria", apellido |-> "Gonzalez", role |-> "inspector"],
      [id |-> "user-3", email |-> "admin@argentina.gob.ar", cuit_cuil |-> "20555555555",
       nombre |-> "Carlos", apellido |-> "Rodriguez", role |-> "administrador"],
      [id |-> "user-4", email |-> "comerciante@email.com", cuit_cuil |-> "20111222333",
       nombre |-> "Ana", apellido |-> "Martinez", role |-> "ciudadano"] }

\* Request bodies of POST /afap (AFAPCreate): the two demo applications.
AFAPCreate ==
    { [solicitante_nombre |-> "Juan", solicitante_apellido |-> "Perez",
       solicitante_cuit_cuil |-> "20123456789", solicitante_telefono |-> "+54 11 1234-5678",
       solicitante_email |-> "ciudadano@argentina.gob.ar",
       titular_tipo |-> "fisica", titular_nombre |-> "Juan Perez", titular_cuit |-> "20123456789",
       cuenta_abl |-> "12345678",
       domicilio_calle |-> "Av. Rivadavia", domicilio_altura |-> "1234", domicilio_local |-> "PB",
       domicilio_localidad |-> "Moron",
       rubro_tipo |-> "Comercio Minorista", rubro_subrubro |-> "Panaderia y Confiteria",
       rubro_descripcion |-> "Panaderia artesanal", metros_cuadrados |-> 85],
      [solicitante_nombre |-> "Ana", solicitante_apellido |-> "Martinez",
       solicitante_cuit_cuil |-> "20111222333", solicitante_telefono |-> "+54 11 1112-2233",
       solicitante_email |-> "comerciante@email.com",
       titular_tipo |-> "juridica", titular_nombre |-> None, titular_cuit |-> None,
       cuenta_abl |-> "87654321",
       domicilio_calle |-> "Av. San Martin", domicilio_altura |-> "500", domicilio_local |-> None,
       domicilio_localidad |-> "Argentina",
       rubro_tipo |-> "Comercio Minorista", rubro_subrubro |-> "Indumentaria",
       rubro_descripcion |-> "Boutique de ropa", metros_cuadrados |-> 120] }

\* estado: Literal[...] of the AFAP model.
EstadoLiteral == {"pendiente", "aprobado", "rechazado", "inspeccion"}

\* ------------------------------------------------------------- helpers

Max(S) == CHOOSE x \in S : \A y \in S : y <= x

\* cursor.to_list(n): at most the first n documents.
to_list(s, n) == IF Len(s) <= n THEN s ELSE SubSeq(s, 1, n)

\* find_one({"id": afap_id}): the first document with that id; <<>> stands
\* for Python's None, <<doc>> for a document found.
find_one(s, afap_id) ==
    IF \E i \in 1..Len(s) : s[i].id = afap_id
    THEN << s[CHOOSE i \in 1..Len(s) :
                 /\ s[i].id = afap_id
                 /\ \A j \in 1..(i - 1) : s[j].id # afap_id] >>
    ELSE <<>>

\* db.users.find_one({"id": user_id}).
find_user(user_id) ==
    IF \E u \in users : u.id = user_id
    THEN << CHOOSE u \in users : u.id = user_id >>
    ELSE <<>>

\* uuid.uuid4(): an id no document and no request in flight holds.
HeldIds ==
    { afap[i].id : i \in 1..Len(afap) }
        \cup { req[p].afap.id : p \in { q \in Procs : req[q].op = "create" } }

uuid4 == CHOOSE i \in 1..(Cardinality(HeldIds) + 1) :
             /\ i \notin HeldIds
             /\ \A j \in 1..(i - 1) : j \in HeldIds

\* datetime values, and the text isoformat() writes for them.
datetime(t, tz) == [t |-> t, tz |-> tz]
timedelta(days) == days * 86400
isoformat(d) == <<"iso", d.t, d.tz>>
fromisoformat(s) == [t |-> s[2], tz |-> s[3]]

Idle == [op |-> "idle"]
NoResp == [op |-> "none"]

HTTPException(op, status_code, current_user, afap_id) ==
    [op |-> op, status |-> status_code, current_user |-> current_user, afap_id |-> afap_id]

\* ------------------------------------------------------------------ state

Init ==
    /\ users = SeedUsers
    /\ afap = <<>>
    /\ download_logs = <<>>
    /\ download_history = <<>>
    /\ inspecciones = <<>>
    /\ now = 0
    /\ req = [p \in Procs |-> Idle]
    /\ resp = NoResp
    /\ mails = <<>>
    /\ tmp = {}

\* ------------------------------------------------------ POST /afap

\* Lines 123-124: the largest numero_afap stored, plus one.
next_number_same(s) ==
    IF s = <<>> THEN FirstNumber
    ELSE Max({ s[i].numero_afap : i \in 1..Len(s) })

next_number(s) ==
    IF s = <<>> THEN FirstNumber
    ELSE Max({ s[i].numero_afap : i \in 1..Len(s) }) + 1

CreatesInFlight == { p \in Procs : req[p].op = "create" }

\* History: a create is alone until a step of a create on another connection
\* falls between its reading of the largest number and its insert.
Interleave(p, r) ==
    [q \in Procs |->
        IF q = p THEN r
        ELSE IF req[q].op = "create" THEN [req[q] EXCEPT !.alone = FALSE]
        ELSE req[q]]

\* Lines 123-138: read the largest number, build the AFAP document; the
\* handler then waits on insert_one.  d is the time that passes between the
\* two readings of the clock (line 127, then the default of fecha_solicitud).
CreateRead(p, filings, elapsed, cap) ==
    /\ req[p] = Idle
    /\ Len(afap) + Cardinality(CreatesInFlight) < cap
    /\ \E filing \in filings, d \in elapsed :
         LET current_user == filing[1]
             afap_data == filing[2]
             fecha_vencimiento == datetime(now + timedelta(DaysValid), "+00:00")
             doc == afap_data @@
                    [id |-> uuid4,
                     numero_afap |-> next_number(afap),
                     user_id |-> current_user.id,
                     estado |-> "pendiente",
                     fecha_solicitud |-> isoformat(datetime(now + d, "")),
                     fecha_vencimiento |-> isoformat(fecha_vencimiento),
                     observaciones |-> None,
                     inspector_asignado |-> None]
         IN req' = Interleave(p, [op |-> "create", pc |-> "insert",
                                   current_user |-> current_user, afap |-> doc,
                                   alone |-> TRUE])
    /\ resp' = NoResp
    /\ mails' = <<>>
    /\ UNCHANGED <<download_history, inspecciones, users, afap, download_logs, now, tmp>>

\* Lines 140-142: insert_one, return the permit.
CreateInsert(p) ==
    /\ req[p].op = "create"
    /\ afap' = Append(afap, req[p].afap)
    /\ resp' = [op |-> "create", status |-> 200, current_user |-> req[p].current_user,
                afap_id |-> req[p].afap.id, body |-> req[p].afap, alone |-> req[p].alone]
    /\ req' = Interleave(p, Idle)
    /\ mails' = <<>>
    /\ UNCHANGED <<download_history, inspecciones, users, download_logs, now, tmp>>

\* --------------------------------------------------- reading a permit

\* The ids a request may name: every stored id and one that is not stored.
AfapIds ==
    LET stored == { afap[i].id : i \in 1..Len(afap) }
    IN stored \cup { CHOOSE i \in 1..(Len(afap) + 1) : i \notin stored }

\* Lines 157-160, 177-180, 609-612: the stored ISO strings back to datetimes.
parse_dates(doc) ==
    [doc EXCEPT !.fecha_solicitud = fromisoformat(@),
                !.fecha_vencimiento = fromisoformat(@)]

\* pydantic's validation of a document against the AFAP model: estado is a
\* Literal of the four lifecycle values.
AFAP_valid(doc) == doc.estado \in EstadoLiteral

\* GET /afap, lines 149-152: the query by role.
get_afaps_query_all(current_user, doc) == TRUE

get_afaps_query(current_user, doc) ==
    IF current_user.role \in {"administrador", "inspector"}
    THEN TRUE
    ELSE doc.user_id = current_user.id

\* GET /afap: find(query).to_list(1000), the dates parsed; the response_model
\* List[AFAP] then validates every document returned.
get_afaps(current_user) ==
    LET query(doc) == get_afaps_query(current_user, doc)
        afaps == to_list(SelectSeq(afap, query), ListLimit)
        body == [i \in 1..Len(afaps) |-> parse_dates(afaps[i])]
    IN IF \A i \in 1..Len(afaps) : AFAP_valid(afaps[i])
       THEN [op |-> "list", status |-> 200, current_user |-> current_user, body |-> body]
       ELSE [op |-> "list", status |-> 500, current_user |-> current_user, body |-> <<>>]

\* GET /afap/{afap_id}: 404, then the ownership check, then AFAP(**afap).
get_afap(afap_id, current_user) ==
    LET found == find_one(afap, afap_id)
    IN IF found = <<>>
       THEN HTTPException("get", 404, current_user, afap_id)
       ELSE IF current_user.role = "ciudadano" /\ found[1].user_id # current_user.id
       THEN HTTPException("get", 403, current_user, afap_id)
       ELSE IF ~AFAP_valid(found[1])
       THEN HTTPException("get", 500, current_user, afap_id)
       ELSE [op |-> "get", status |-> 200, current_user |-> current_user,
             afap_id |-> afap_id, body |-> parse_dates(found[1])]

\* GET /verificar/{afap_id}, lines 615-631: only the public fields.
public_view_leak(doc) ==
    [id |-> doc.id, numero_afap |-> doc.numero_afap, estado |-> doc.estado,
     solicitante_email |-> doc.solicitante_email,
     observaciones |-> doc.observaciones]

public_view_stale(doc) ==
    [id |-> doc.id, numero_afap |-> doc.numero_afap, estado |-> "pendiente",
     observaciones |-> doc.observaciones]

public_view(doc) ==
    [id |-> doc.id,
     numero_afap |-> doc.numero_afap,
     estado |-> doc.estado,
     titular_nombre |-> doc.titular_nombre,
     titular_cuit |-> doc.titular_cuit,
     domicilio_calle |-> doc.domicilio_calle,
     domicilio_altura |-> doc.domicilio_altura,
     domicilio_local |-> doc.domicilio_local,
     domicilio_localidad |-> doc.domicilio_localidad,
     rubro_tipo |-> doc.rubro_tipo,
     rubro_descripcion |-> doc.rubro_descripcion,
     metros_cuadrados |-> doc.metros_cuadrados,
     fecha_solicitud |-> isoformat(doc.fecha_solicitud),
     fecha_vencimiento |-> isoformat(doc.fecha_vencimiento),
     observaciones |-> doc.observaciones]

\* The handler takes no credential: its only input is the id.
verificar_certificado_publico(afap_id) ==
    LET found == find_one(afap, afap_id)
    IN IF found = <<>>
       THEN HTTPException("verify", 404, None, afap_id)
       ELSE [op |-> "verify", status |-> 200, current_user |-> None,
             afap_id |-> afap_id, body |-> public_view(parse_dates(found[1]))]

\* ------------------------------------------- PATCH /afap/{afap_id}/estado

\* update_one({"id": afap_id}, {"$set": update_data}): the first match.
update_many(s, afap_id, update_data) ==
    [i \in 1..Len(s) |-> update_data @@ s[i]]

update_one_terminal(s, afap_id, update_data) ==
    IF find_one(s, afap_id) = <<>> THEN s
    ELSE LET i == CHOOSE k \in 1..Len(s) :
                      /\ s[k].id = afap_id
                      /\ \A j \in 1..(k - 1) : s[j].id # afap_id
         IN IF s[i].estado \in {"aprobado", "rechazado"} THEN s
            ELSE [s EXCEPT ![i] = update_data @@ s[i]]

update_one_renew(s, afap_id, update_data) ==
    IF find_one(s, afap_id) = <<>> THEN s
    ELSE LET i == CHOOSE k \in 1..Len(s) :
                      /\ s[k].id = afap_id
                      /\ \A j \in 1..(k - 1) : s[j].id # afap_id
         IN [s EXCEPT ![i] = update_data @@ [s[i] EXCEPT !.fecha_vencimiento = s[i].fecha_solicitud]]

update_one_keep_approved(s, afap_id, update_data) ==
    IF find_one(s, afap_id) = <<>> THEN s
    ELSE LET i == CHOOSE k \in 1..Len(s) :
                      /\ s[k].id = afap_id
                      /\ \A j \in 1..(k - 1) : s[j].id # afap_id
         IN IF s[i].estado = "aprobado" THEN s
            ELSE [s EXCEPT ![i] = update_data @@ s[i]]

update_one(s, afap_id, update_data) ==
    IF find_one(s, afap_id) = <<>> THEN s
    ELSE LET i == CHOOSE k \in 1..Len(s) :
                      /\ s[k].id = afap_id
                      /\ \A j \in 1..(k - 1) : s[j].id # afap_id
         IN [s EXCEPT ![i] = update_data @@ s[i]]

matched_count(s, afap_id) == IF find_one(s, afap_id) = <<>> THEN 0 ELSE 1

\* Lines 203-205: observaciones is written only when it is truthy.
set_estado(estado, observaciones) ==
    IF observaciones \notin {None, ""}
    THEN [estado |-> estado, observaciones |-> observaciones]
    ELSE [estado |-> estado]

\* The fields of afap_actual that the handler reads after line 200 (lines
\* 217, 231-232, 243, and email_service.py lines 21-23).
afap_actual_fields(doc) ==
    [user_id |-> doc.user_id, numero_afap |-> doc.numero_afap,
     rubro_descripcion |-> doc.rubro_descripcion,
     domicilio_calle |-> doc.domicilio_calle,
     domicilio_altura |-> doc.domicilio_altura,
     metros_cuadrados |-> doc.metros_cuadrados]

\* Lines 192-198: the role check, then find_one.
update_check_open(current_user, found) ==
    IF found = <<>> THEN 404 ELSE 200

update_check(current_user, found) ==
    IF current_user.role \notin {"inspector", "administrador"} THEN 403
    ELSE IF found = <<>> THEN 404
    ELSE 200

\* Lines 192-205: the checks; the handler then waits on update_one.
UpdateFind(p, estados, observations) ==
    /\ req[p] = Idle
    /\ \E current_user \in users, afap_id \in AfapIds :
         LET afap_actual == find_one(afap, afap_id)
             status == update_check(current_user, afap_actual)
         IN IF status # 200
            THEN /\ resp' = HTTPException("update", status, current_user, afap_id)
                 /\ req' = req
            ELSE /\ resp' = NoResp
                 /\ \E estado \in estados, observaciones \in observations :
                      req' = [req EXCEPT ![p] =
                                [op |-> "update", pc |-> "write",
                                 current_user |-> current_user, afap_id |-> afap_id,
                                 estado |-> estado, observaciones |-> observaciones,
                                 afap_actual |-> afap_actual_fields(afap_actual[1]),
                                 old_estado |-> afap_actual[1].estado]]
    /\ mails' = <<>>
    /\ UNCHANGED <<download_history, inspecciones, users, afap, download_logs, now, tmp>>

\* Lines 207-213: update_one; the handler then waits on users.find_one.
UpdateWrite(p) ==
    /\ req[p].op = "update"
    /\ req[p].pc = "write"
    /\ afap' = update_one(afap, req[p].afap_id,
                          set_estado(req[p].estado, req[p].observaciones))
    /\ IF matched_count(afap, req[p].afap_id) = 0
       THEN /\ resp' = HTTPException("update", 404, req[p].current_user, req[p].afap_id)
            /\ req' = [req EXCEPT ![p] = Idle]
       ELSE /\ resp' = NoResp
            /\ req' = [req EXCEPT ![p].pc = "notify"]
    /\ mails' = <<>>
    /\ UNCHANGED <<download_history, inspecciones, users, download_logs, now, tmp>>

\* src/email_service.py: one attempt to send; success is what the call returns.
send_certificate_email(user_email, user_name, afap_numero, afap_data, success) ==
    [kind |-> "certificate", to |-> user_email, user_name |-> user_name,
     afap_numero |-> afap_numero, afap_data |-> afap_data, success |-> success]

send_status_notification(user_email, user_name, afap_numero, old_status, new_status, observaciones, success) ==
    [kind |-> "status", to |-> user_email, user_name |-> user_name,
     afap_numero |-> afap_numero, old_status |-> old_status, new_status |-> new_status,
     observaciones |-> observaciones, success |-> success]

\* Lines 222-249: the attempts made for one call, in order.
notify_status_only(r, user, ok_certificate, ok_status) ==
    << send_status_notification(user.email, <<user.nombre, user.apellido>>,
                                r.afap_actual.numero_afap, r.old_estado, r.estado,
                                r.observaciones, ok_status) >>

notify_abort_on_failure(r, user, ok_certificate, ok_status) ==
    LET certificate ==
            send_certificate_email(user.email, <<user.nombre, user.apellido>>,
                                   r.afap_actual.numero_afap, r.afap_actual, ok_certificate)
        status ==
            send_status_notification(user.email, <<user.nombre, user.apellido>>,
                                     r.afap_actual.numero_afap, r.old_estado, r.estado,
                                     r.observaciones, ok_status)
    IN IF r.estado = "aprobado" /\ r.old_estado # "aprobado"
       THEN IF ok_certificate THEN <<certificate, status>> ELSE <<certificate>>
       ELSE <<status>>

notify_every_approval(r, user, ok_certificate, ok_status) ==
    LET certificate ==
            send_certificate_email(user.email, <<user.nombre, user.apellido>>,
                                   r.afap_actual.numero_afap, r.afap_actual, ok_certificate)
        status ==
            send_status_notification(user.email, <<user.nombre, user.apellido>>,
                                     r.afap_actual.numero_afap, r.old_estado, r.estado,
                                     r.observaciones, ok_status)
    IN IF r.estado = "aprobado" THEN <<certificate, status>> ELSE <<status>>

notify(r, user, ok_certificate, ok_status) ==
    LET user_name == <<user.nombre, user.apellido>>
        user_email == user.email
        certificate ==
            IF r.estado = "aprobado" /\ r.old_estado # "aprobado"
            THEN << send_certificate_email(user_email, user_name,
                                           r.afap_actual.numero_afap, r.afap_actual,
                                           ok_certificate) >>
            ELSE <<>>
    IN certificate \o
       << send_status_notification(user_email, user_name, r.afap_actual.numero_afap,
                                   r.old_estado, r.estado, r.observaciones, ok_status) >>

\* Lines 216-256: users.find_one, the notifications, the response.
UpdateNotify(p, outcomes) ==
    /\ req[p].op = "update"
    /\ req[p].pc = "notify"
    /\ LET user_solicitante == find_user(req[p].afap_actual.user_id)
       IN /\ IF user_solicitante = <<>>
             THEN mails' = <<>>
             ELSE \E ok_certificate \in outcomes, ok_status \in outcomes :
                     mails' = notify(req[p], user_solicitante[1], ok_certificate, ok_status)
          /\ resp' = [op |-> "update", status |-> 200,
                      current_user |-> req[p].current_user, afap_id |-> req[p].afap_id,
                      body |-> [old_estado |-> req[p].old_estado,
                                new_estado |-> req[p].estado,
                                email_sent |-> user_solicitante # <<>>]]
    /\ req' = [req EXCEPT ![p] = Idle]
    /\ UNCHANGED <<download_history, inspecciones, users, afap, download_logs, now, tmp>>

\* ---------------------------------------- GET /afap/{afap_id}/certificado

DownloadsInFlight == { p \in Procs : req[p].op = "download" }

\* src/pdf_generator.py: what the certificate shows of the permit.
generate_afap_certificate(afap_data) ==
    [numero_afap |-> afap_data.numero_afap,
     titular_nombre |-> afap_data.titular_nombre,
     verification_url |-> <<"FRONTEND_URL", "/verificar-certificado/", afap_data.id>>]

\* Lines 264-274: find_one and the three checks, in the code's order.
download_check_owner_first(found, current_user) ==
    IF found = <<>> THEN 404
    ELSE IF current_user.role = "ciudadano" /\ found[1].user_id # current_user.id THEN 403
    ELSE IF found[1].estado # "aprobado" THEN 400
    ELSE 200

download_check_any_citizen(found, current_user) ==
    IF found = <<>> THEN 404
    ELSE IF found[1].estado # "aprobado" THEN 400
    ELSE 200

download_check_expiry(found, current_user) ==
    IF found = <<>> THEN 404
    ELSE IF found[1].estado # "aprobado" THEN 400
    ELSE IF now > fromisoformat(found[1].fecha_vencimiento).t THEN 400
    ELSE IF current_user.role = "ciudadano" /\ found[1].user_id # current_user.id THEN 403
    ELSE 200

download_check(found, current_user) ==
    IF found = <<>> THEN 404
    ELSE IF found[1].estado # "aprobado" THEN 400
    ELSE IF current_user.role = "ciudadano" /\ found[1].user_id # current_user.id THEN 403
    ELSE 200

DownloadFind(p, cap) ==
    /\ req[p] = Idle
    /\ \E current_user \in users, afap_id \in AfapIds :
         LET afap_doc == find_one(afap, afap_id)
             status == download_check(afap_doc, current_user)
         IN IF status # 200
            THEN /\ resp' = HTTPException("download", status, current_user, afap_id)
                 /\ req' = req
            ELSE /\ Len(download_logs) + Cardinality(DownloadsInFlight) < cap
                 /\ resp' = NoResp
                 /\ req' = [req EXCEPT ![p] =
                              [op |-> "download", pc |-> "log", afap_id |-> afap_id,
                               current_user |-> current_user, afap |-> afap_doc[1]]]
    /\ mails' = <<>>
    /\ UNCHANGED <<download_history, inspecciones, users, afap, download_logs, now, tmp>>

\* Lines 278-284: the DownloadLog document (its own uuid left out).
DownloadLog_owner(current_user, afap_id, afap_doc) ==
    [afap_id |-> afap_id,
     afap_numero |-> afap_doc.numero_afap,
     user_id |-> afap_doc.user_id,
     user_nombre |-> <<current_user.nombre, current_user.apellido>>,
     user_email |-> current_user.email,
     timestamp |-> isoformat(datetime(now, "")),
     ip_address |-> None]

DownloadLog(current_user, afap_id, afap_doc) ==
    [afap_id |-> afap_id,
     afap_numero |-> afap_doc.numero_afap,
     user_id |-> current_user.id,
     user_nombre |-> <<current_user.nombre, current_user.apellido>>,
     user_email |-> current_user.email,
     timestamp |-> isoformat(datetime(now, "")),
     ip_address |-> None]

\* Lines 291-292: the except clause only logs; the handler goes on to render.
after_log_raise(inserted) == IF inserted THEN "render" ELSE "failed"

after_log(inserted) == "render"

\* Lines 277-292: insert_one of the log; a failure is caught and logged.
\* History: logged records whether this call's insert_one succeeded.
DownloadInsertLog(p, outcomes) ==
    /\ req[p].op = "download"
    /\ req[p].pc = "log"
    /\ \E inserted \in outcomes :
         /\ download_logs' =
            IF inserted
            THEN Append(download_logs,
                        DownloadLog(req[p].current_user, req[p].afap_id, req[p].afap))
            ELSE download_logs
         /\ req' = [req EXCEPT ![p] = [req[p] EXCEPT !.pc = after_log(inserted)]
                                      @@ [logged |-> inserted]]
    /\ resp' = NoResp
    /\ mails' = <<>>
    /\ UNCHANGED <<download_history, inspecciones, users, afap, now, tmp>>

\* Lines 295-308: the PDF, or 500 when rendering raises.
DownloadRender(p, outcomes) ==
    /\ req[p].op = "download"
    /\ req[p].pc = "render"
    /\ \E rendered \in outcomes :
         resp' = IF rendered
                 THEN [op |-> "download", status |-> 200,
                       current_user |-> req[p].current_user, afap_id |-> req[p].afap_id,
                       body |-> generate_afap_certificate(req[p].afap),
                       logged |-> req[p].logged]
                 ELSE HTTPException("download", 500, req[p].current_user, req[p].afap_id)
    /\ req' = [req EXCEPT ![p] = Idle]
    /\ mails' = <<>>
    /\ UNCHANGED <<download_history, inspecciones, users, afap, download_logs, now, tmp>>

\* src/pdf_generator.py lines 219-252, one file operation at a time: renders
\* running in different server processes share the directory /tmp.

qr_path(afap_data) == <<"/tmp/qr_", afap_data.numero_afap, ".png">>

\* open(qr_path, 'wb').write: the file is created or overwritten.
open_write(files, path, content) ==
    { f \in files : f[1] # path } \cup { <<path, content>> }

\* os.path.exists(qr_path) and os.remove(qr_path).
os_remove(files, path) == { f \in files : f[1] # path }

\* Lines 223-230: the QR image of the verification URL goes to the file.
QrWrite(p) ==
    /\ req[p].op = "download"
    /\ req[p].pc = "render"
    /\ tmp' = open_write(tmp, qr_path(req[p].afap),
                         generate_afap_certificate(req[p].afap).verification_url)
    /\ req' = [req EXCEPT ![p].pc = "drawImage"]
    /\ resp' = NoResp
    /\ mails' = <<>>
    /\ UNCHANGED <<download_history, inspecciones, users, afap, download_logs, now>>

\* Line 233: drawImage reads the file; when the file is not there it raises,
\* and lines 247-252 draw an empty frame in place of the QR code.
QrDrawImage(p) ==
    /\ req[p].op = "download"
    /\ req[p].pc = "drawImage"
    /\ LET found == { f \in tmp : f[1] = qr_path(req[p].afap) }
       IN req' = [req EXCEPT ![p] =
                    IF found = {}
                    THEN [req[p] EXCEPT !.pc = "respond"] @@ [qr |-> <<>>]
                    ELSE [req[p] EXCEPT !.pc = "remove"]
                         @@ [qr |-> (CHOOSE f \in found : TRUE)[2]]]
    /\ resp' = NoResp
    /\ mails' = <<>>
    /\ UNCHANGED <<download_history, inspecciones, users, afap, download_logs, now, tmp>>

\* Lines 244-245: the file is removed if it is there.
QrRemove(p) ==
    /\ req[p].op = "download"
    /\ req[p].pc = "remove"
    /\ tmp' = os_remove(tmp, qr_path(req[p].afap))
    /\ req' = [req EXCEPT ![p].pc = "respond"]
    /\ resp' = NoResp
    /\ mails' = <<>>
    /\ UNCHANGED <<download_history, inspecciones, users, afap, download_logs, now>>

\* server.py lines 298-304: the PDF is returned with what was drawn in it.
DownloadRespond(p) ==
    /\ req[p].op = "download"
    /\ req[p].pc = "respond"
    /\ resp' = [op |-> "download", status |-> 200,
                current_user |-> req[p].current_user, afap_id |-> req[p].afap_id,
                body |-> [generate_afap_certificate(req[p].afap) EXCEPT
                            !.verification_url = req[p].qr],
                logged |-> req[p].logged]
    /\ req' = [req EXCEPT ![p] = Idle]
    /\ mails' = <<>>
    /\ UNCHANGED <<download_history, inspecciones, users, afap, download_logs, now, tmp>>

\* ------------------------------------------------- GET /admin/descargas

\* sort("download_timestamp", -1): latest first, equal stamps in stored order.
RECURSIVE sort_download_timestamp(_)
sort_download_timestamp(s) ==
    IF s = <<>> THEN <<>>
    ELSE LET i == CHOOSE k \in 1..Len(s) :
                     /\ \A j \in 1..Len(s) : s[j].download_timestamp <= s[k].download_timestamp
                     /\ \A j \in 1..(k - 1) : s[j].download_timestamp < s[k].download_timestamp
             rest == [j \in 1..(Len(s) - 1) |-> IF j < i THEN s[j] ELSE s[j + 1]]
         IN <<s[i]>> \o sort_download_timestamp(rest)

\* GET /admin/descargas: the role check, then the first 100 documents of
\* db.download_history, latest first.
get_all_downloads(current_user) ==
    IF current_user.role # "administrador"
    THEN HTTPException("downloads", 403, current_user, None)
    ELSE LET downloads == to_list(sort_download_timestamp(download_history), DownloadsLimit)
         IN [op |-> "downloads", status |-> 200, current_user |-> current_user,
             body |-> [total |-> Len(downloads), descargas |-> downloads]]

\* ------------------------------------------------- POST, GET /inspecciones

\* Inspeccion.id, default_factory uuid4: an id no stored inspection holds.
inspeccion_id == Len(inspecciones) + 1

\* Line 340 and the defaults of the Inspeccion model, then lines 342-346.
Inspeccion(inspeccion_data) ==
    [id |-> inspeccion_id,
     afap_id |-> inspeccion_data.afap_id,
     inspector_id |-> inspeccion_data.inspector_id,
     fecha_programada |-> isoformat(inspeccion_data.fecha_programada),
     observaciones |-> inspeccion_data.observaciones,
     estado |-> "programada",
     fecha_realizada |-> None,
     resultado |-> None,
     notas |-> None,
     created_at |-> isoformat(datetime(now, ""))]

\* Lines 337-338: the role check.
inspeccion_check_open(current_user) == 200

inspeccion_check(current_user) ==
    IF current_user.role \notin {"inspector", "administrador"} THEN 403 ELSE 200

\* POST /inspecciones: the role check, the document, insert_one, the response.
create_inspeccion(p, callers, bodies, cap) ==
    /\ req[p] = Idle
    /\ \E current_user \in callers, inspeccion_data \in bodies :
         IF inspeccion_check(current_user) # 200
         THEN /\ resp' = HTTPException("schedule", inspeccion_check(current_user),
                                       current_user, inspeccion_data.afap_id)
              /\ inspecciones' = inspecciones
         ELSE /\ Len(inspecciones) < cap
              /\ inspecciones' = Append(inspecciones, Inspeccion(inspeccion_data))
              /\ resp' = [op |-> "schedule", status |-> 200, current_user |-> current_user,
                          afap_id |-> inspeccion_data.afap_id,
                          body |-> [Inspeccion(inspeccion_data) EXCEPT
                                      !.fecha_programada = fromisoformat(@),
                                      !.created_at = fromisoformat(@)]]
    /\ mails' = <<>>
    /\ UNCHANGED <<users, afap, download_logs, download_history, now, req, tmp>>

\* Lines 368-374: the stored ISO strings back to datetimes.
parse_inspeccion_dates(doc) ==
    [doc EXCEPT !.fecha_programada = fromisoformat(@),
                !.created_at = fromisoformat(@)]

\* GET /inspecciones, lines 356-364: the query by role; a citizen's query is
\* built from the ids of the first 1000 permits the citizen owns.
inspecciones_query(current_user, doc) ==
    IF current_user.role = "inspector" THEN doc.inspector_id = current_user.id
    ELSE IF current_user.role = "administrador" THEN TRUE
    ELSE LET owned(a) == a.user_id = current_user.id
             user_afaps == to_list(SelectSeq(afap, owned), ListLimit)
             afap_ids == { user_afaps[i].id : i \in 1..Len(user_afaps) }
         IN doc.afap_id \in afap_ids

\* GET /inspecciones: find(query).to_list(1000), the dates parsed.
get_inspecciones(current_user) ==
    LET query(doc) == inspecciones_query(current_user, doc)
        found == to_list(SelectSeq(inspecciones, query), ListLimit)
    IN [op |-> "inspections", status |-> 200, current_user |-> current_user,
        body |-> [i \in 1..Len(found) |-> parse_inspeccion_dates(found[i])]]

\* ---------------------------------------------------- POST /auth/register

\* The ids uuid4 gives to registered users, in the order they are drawn.
UserUuids == <<"uuid-1", "uuid-2", "uuid-3", "uuid-4", "uuid-5", "uuid-6">>

RegistersInFlight == { p \in Procs : req[p].op = "register" }

\* Lines 62-64: find_one by cuit_cuil; the handler then waits on the
\* find_one by email.
RegisterFindCuit(p, bodies, cap) ==
    /\ req[p] = Idle
    /\ \E user_data \in bodies :
         LET existing_user == { u \in users : u.cuit_cuil = user_data.cuit_cuil }
         IN IF existing_user # {}
            THEN /\ resp' = [op |-> "register", status |-> 400, user_data |-> user_data]
                 /\ req' = req
            ELSE /\ Cardinality(users) + Cardinality(RegistersInFlight)
                       < Cardinality(SeedUsers) + cap
                 /\ resp' = NoResp
                 /\ req' = [req EXCEPT ![p] = [op |-> "register", pc |-> "email",
                                               user_data |-> user_data]]
    /\ mails' = <<>>
    /\ UNCHANGED <<users, afap, download_logs, download_history, inspecciones, now, tmp>>

\* Lines 66-68: find_one by email; the handler then waits on insert_one.
RegisterFindEmail(p) ==
    /\ req[p].op = "register"
    /\ req[p].pc = "email"
    /\ LET existing_email == { u \in users : u.email = req[p].user_data.email }
       IN IF existing_email # {}
          THEN /\ resp' = [op |-> "register", status |-> 400,
                           user_data |-> req[p].user_data]
               /\ req' = [req EXCEPT ![p] = Idle]
          ELSE /\ resp' = NoResp
               /\ req' = [req EXCEPT ![p].pc = "insert"]
    /\ mails' = <<>>
    /\ UNCHANGED <<users, afap, download_logs, download_history, inspecciones, now, tmp>>

\* Lines 71-90: the UserInDB document with its fresh id, insert_one, the token.
RegisterInsert(p) ==
    /\ req[p].op = "register"
    /\ req[p].pc = "insert"
    /\ LET user_in_db ==
              [id |-> UserUuids[Cardinality(users) - Cardinality(SeedUsers) + 1],
               email |-> req[p].user_data.email,
               cuit_cuil |-> req[p].user_data.cuit_cuil,
               nombre |-> req[p].user_data.nombre,
               apellido |-> req[p].user_data.apellido,
               role |-> req[p].user_data.role]
       IN /\ users' = users \cup {user_in_db}
          /\ resp' = [op |-> "register", status |-> 200,
                      user_data |-> req[p].user_data, body |-> user_in_db]
    /\ req' = [req EXCEPT ![p] = Idle]
    /\ mails' = <<>>
    /\ UNCHANGED <<afap, download_logs, download_history, inspecciones, now, tmp>>

\* ------------------------------------------------------------ the clock

\* Time passes: while a stored permit is still within its validity, the clock
\* moves on by more than the validity of a permit.  The server runs nothing
\* of its own as time passes.
Tick ==
    /\ \E i \in 1..Len(afap) : now <= fromisoformat(afap[i].fecha_vencimiento).t
    /\ now' = now + timedelta(DaysValid) + 1
    /\ resp' = NoResp
    /\ mails' = <<>>
    /\ UNCHANGED <<users, afap, download_logs, download_history, inspecciones, req, tmp>>

\* ---------------------------------------------------------- specifications

\* The values a caller passes as estado and observaciones (both plain str).
EstadoArgs == {"pendiente", "aprobado", "rechazado", "otro"}
ObservacionesArgs == {None, "Cumple requisitos"}

\* Who files which application: every user, either application.
AllFilings == users \X AFAPCreate

\* Citizens file their own application, staff file Juan's.
Filings ==
    { f \in AllFilings :
        \/ f[2].solicitante_email = f[1].email
        \/ f[1].role # "ciudadano" /\ f[2].titular_tipo = "fisica" }

OwnFilings == { f \in AllFilings : f[2].solicitante_email = f[1].email }

\* Concurrent creation: creates on every connection, interleaved at their awaits.
NextCreate ==
    \E p \in Procs :
        \/ CreateRead(p, AllFilings, {0}, MaxAfap)
        \/ CreateInsert(p)

SpecCreate == Init /\ [][NextCreate]_vars

\* The connection that serves requests when they come one after another.
Conn == CHOOSE p \in Procs : \A q \in Procs : p <= q

\* The permit registry, requests served one after another: creation, the
\* status update and its notifications.  The handlers that read a permit
\* (get_afaps, get_afap, verificar_certificado_publico) change no state and
\* are applied to every state this reaches.
Next ==
    \/ CreateRead(Conn, Filings, {0}, MaxPermits)
    \/ CreateInsert(Conn)
    \/ UpdateFind(Conn, EstadoArgs, ObservacionesArgs)
    \/ UpdateWrite(Conn)
    \/ UpdateNotify(Conn, BOOLEAN)

Spec == Init /\ [][Next]_vars

\* Certificate issuance, requests served one after another, with the
\* handlers that write the permits it reads.
NextDownload ==
    \/ CreateRead(Conn, OwnFilings, {0}, MaxPermits)
    \/ CreateInsert(Conn)
    \/ UpdateFind(Conn, {"aprobado", "rechazado"}, {None})
    \/ UpdateWrite(Conn)
    \/ UpdateNotify(Conn, {TRUE})
    \/ DownloadFind(Conn, MaxLogs)
    \/ DownloadInsertLog(Conn, BOOLEAN)
    \/ DownloadRender(Conn, BOOLEAN)

SpecDownload == Init /\ [][NextDownload]_vars

\* The bodies of POST /inspecciones: any permit id, stored or not, assigned
\* to the inspector or to the administrator, for the next day.
InspeccionCreate ==
    [afap_id : AfapIds,
     inspector_id : {"user-2", "user-3"},
     fecha_programada : {datetime(now + 86400, "+00:00")},
     observaciones : {None}]

\* Inspections, requests served one after another, with the creation of the
\* permits they refer to.  get_inspecciones changes no state and is applied
\* to every state this reaches.
NextInspecciones ==
    \/ CreateRead(Conn, OwnFilings, {0}, MaxAfap)
    \/ CreateInsert(Conn)
    \/ create_inspeccion(Conn, users, InspeccionCreate, MaxInspecciones)

SpecInspecciones == Init /\ [][NextInspecciones]_vars

\* One administrator scheduling inspection after inspection of one permit id,
\* past the length at which the lists are cut.
BulkInspeccion ==
    [afap_id |-> 1, inspector_id |-> "user-2",
     fecha_programada |-> datetime(now + 86400, "+00:00"), observaciones |-> None]

NextBulk ==
    create_inspeccion(Conn, { u \in users : u.role = "administrador" },
                      {BulkInspeccion}, ListLimit + 1)

SpecBulk == Init /\ [][NextBulk]_vars

\* The bodies of POST /auth/register: two new people, one body with the
\* cuit_cuil of a registered user and one with the email of a registered user.
UserCreate ==
    { [email |-> "nueva@email.com", cuit_cuil |-> "27000000001",
       nombre |-> "Lucia", apellido |-> "Sosa", role |-> "ciudadano"],
      [email |-> "segunda@email.com", cuit_cuil |-> "27000000002",
       nombre |-> "Pedro", apellido |-> "Diaz", role |-> "ciudadano"],
      [email |-> "otro@email.com", cuit_cuil |-> "20123456789",
       nombre |-> "Juan", apellido |-> "Perez", role |-> "ciudadano"],
      [email |-> "ciudadano@argentina.gob.ar", cuit_cuil |-> "27000000003",
       nombre |-> "Juana", apellido |-> "Perez", role |-> "ciudadano"] }

\* Registration: registers on every connection, interleaved at their awaits.
NextRegister ==
    \E p \in Procs :
        \/ RegisterFindCuit(p, UserCreate, MaxUsers)
        \/ RegisterFindEmail(p)
        \/ RegisterInsert(p)

SpecRegister == Init /\ [][NextRegister]_vars

\* Creation with the clock seen: between the clock reading of line 127 and
\* the one the fecha_solicitud default makes at line 129 the clock may stand
\* still or advance.
ClockElapsed == {0, 1}

NextCreateClock ==
    \/ CreateRead(Conn, AllFilings, ClockElapsed, MaxAfap)
    \/ CreateInsert(Conn)

SpecCreateClock == Init /\ [][NextCreateClock]_vars

\* The public verification among the other operations, requests served one
\* after another: one citizen's permits are created, approved and certified,
\* and the first of them inspected.
\* verificar_certificado_publico changes no state and is applied to every
\* state this reaches.
NextVerify ==
    \/ CreateRead(Conn, { f \in OwnFilings : f[1].id = "user-1" }, {0}, MaxAfap)
    \/ CreateInsert(Conn)
    \/ UpdateFind(Conn, {"aprobado"}, {"Cumple requisitos"})
    \/ UpdateWrite(Conn)
    \/ UpdateNotify(Conn, {TRUE})
    \/ DownloadFind(Conn, MaxLogs)
    \/ DownloadInsertLog(Conn, {TRUE})
    \/ DownloadRender(Conn, {TRUE})
    \/ create_inspeccion(Conn, { u \in users : u.role = "inspector" },
                         { d \in InspeccionCreate : d.inspector_id = "user-2" /\ d.afap_id = 1 },
                         MaxLogs)

SpecVerify == Init /\ [][NextVerify]_vars

\* The lifecycle, requests served one after another: updates to each of the
\* four lifecycle values from whatever estado the permit has.
NextTransitions ==
    \/ CreateRead(Conn, OwnFilings, {0}, MaxPermits)
    \/ CreateInsert(Conn)
    \/ UpdateFind(Conn, EstadoLiteral, ObservacionesArgs)
    \/ UpdateWrite(Conn)
    \/ UpdateNotify(Conn, {TRUE})

SpecTransitions == Init /\ [][NextTransitions]_vars

\* A permit through its validity, requests served one after another: a
\* citizen's permit is created, approved, inspected and certified while the
\* clock moves past its fecha_vencimiento.
NextExpiry ==
    \/ CreateRead(Conn, { f \in OwnFilings : f[1].id = "user-1" }, {0}, MaxPermits)
    \/ CreateInsert(Conn)
    \/ /\ UpdateFind(Conn, {"aprobado"}, {None})
       /\ req'[Conn] # Idle => req'[Conn].current_user.role = "administrador"
    \/ UpdateWrite(Conn)
    \/ UpdateNotify(Conn, {TRUE})
    \/ /\ DownloadFind(Conn, MaxLogs)
       /\ req'[Conn] # Idle => req'[Conn].current_user.id = "user-1"
    \/ DownloadInsertLog(Conn, {TRUE})
    \/ DownloadRender(Conn, {TRUE})
    \/ create_inspeccion(Conn, { u \in users : u.role = "inspector" },
                         { d \in InspeccionCreate : d.inspector_id = "user-2" /\ d.afap_id = 1 },
                         MaxLogs)
    \/ Tick

SpecExpiry == Init /\ [][NextExpiry]_vars

\* The two connections of a pair of interleaved requests.
Pair == { p \in Procs : p <= Conn + 1 }

\* Status updates on different permits: an administrator approves on one
\* connection and rejects, with observaciones, on the other, interleaved at
\* their awaits, on the permits a citizen has filed.
NextCommute ==
    \/ CreateRead(Conn, { f \in OwnFilings : f[1].id = "user-1" }, {0}, MaxAfap)
    \/ CreateInsert(Conn)
    \/ \E p \in Pair :
         \/ /\ UpdateFind(p, {"aprobado", "rechazado"}, ObservacionesArgs)
            /\ req'[p] # Idle =>
                  /\ req'[p].current_user.role = "administrador"
                  /\ req'[p].estado = (IF p = Conn THEN "aprobado" ELSE "rechazado")
                  /\ req'[p].observaciones = (IF p = Conn THEN None ELSE "Cumple requisitos")
         \/ UpdateWrite(p)
         \/ UpdateNotify(p, {TRUE})

SpecCommute == Init /\ [][NextCommute]_vars

\* Status updates on one permit: an administrator's updates on the two
\* connections of a pair, interleaved at their awaits.
NextUpdates ==
    \/ CreateRead(Conn, { f \in OwnFilings : f[1].id = "user-1" }, {0}, MaxPermits)
    \/ CreateInsert(Conn)
    \/ \E p \in Pair :
         \/ /\ UpdateFind(p, {"aprobado", "rechazado"}, {None})
            /\ req'[p] # Idle => req'[p].current_user.role = "administrador"
         \/ UpdateWrite(p)
         \/ UpdateNotify(p, {TRUE})

SpecUpdates == Init /\ [][NextUpdates]_vars

\* Approvals only, interleaved on the two connections of a pair: a permit is
\* created pendiente and no request asks for anything but aprobado, so the
\* stored estado of a permit passes to aprobado at most once.
NextApprovals ==
    \/ CreateRead(Conn, { f \in OwnFilings : f[1].id = "user-1" }, {0}, MaxPermits)
    \/ CreateInsert(Conn)
    \/ \E p \in Pair :
         \/ UpdateFind(p, {"aprobado"}, {None})
         \/ UpdateWrite(p)
         \/ UpdateNotify(p, {TRUE})

SpecApprovals == Init /\ [][NextApprovals]_vars

\* Certificates of an approved permit rendered by two server processes at
\* once, one file operation at a time.
NextRender ==
    \/ CreateRead(Conn, { f \in OwnFilings : f[1].id = "user-1" }, {0}, MaxPermits)
    \/ CreateInsert(Conn)
    \/ UpdateFind(Conn, {"aprobado"}, {None})
    \/ UpdateWrite(Conn)
    \/ UpdateNotify(Conn, {TRUE})
    \/ \E p \in Pair :
         \/ /\ DownloadFind(p, MaxAfap)
            /\ req'[p] # Idle => req'[p].current_user.id = "user-1"
         \/ DownloadInsertLog(p, {TRUE})
         \/ QrWrite(p)
         \/ QrDrawImage(p)
         \/ QrRemove(p)
         \/ DownloadRespond(p)

SpecRender == Init /\ [][NextRender]_vars

\* ------------------------------------------------------------------ claims

Staff == {"inspector", "administrador"}

\* The requester fields of AFAPBase (src/models.py lines 36-40).
SolicitanteFields ==
    {"solicitante_nombre", "solicitante_apellido", "solicitante_cuit_cuil",
     "solicitante_telefono", "solicitante_email"}

Numbers(s) == { s[i].numero_afap : i \in 1..Len(s) }

\* C1: no state of the registry holds two permits with the same numero_afap,
\* however the reads and inserts of concurrent creates interleave.
C1_NumeroAfapUnique ==
    \A i, j \in 1..Len(afap) : i # j => afap[i].numero_afap # afap[j].numero_afap

\* C2: a create with no step of another create between its read and its
\* insert stores the permit it returns with numero_afap = largest stored
\* number + 1 (1001 in an empty registry), above every number stored before.
C2_SequentialNumbering ==
    (resp.op = "create" /\ resp.alone) =>
        LET prior == SubSeq(afap, 1, Len(afap) - 1)
            n == resp.body.numero_afap
        IN /\ afap[Len(afap)] = resp.body
           /\ n = IF prior = <<>> THEN 1001 ELSE Max(Numbers(prior)) + 1
           /\ \A m \in Numbers(prior) : m < n

C2_Witness ==
    /\ resp.op = "create"
    /\ resp.alone
    /\ Len(afap) = 2
    /\ resp.body.numero_afap = 1002

\* C3: list by a citizen returns only that citizen's permits, and list by an
\* inspector or administrator returns every permit of the registry.
C3_ListByRole ==
    \A u \in users :
        LET r == get_afaps(u)
        IN IF u.role \in Staff
           THEN /\ r.status = 200
                /\ r.body = [i \in 1..Len(afap) |-> parse_dates(afap[i])]
           ELSE \A i \in 1..Len(r.body) : r.body[i].user_id = u.id

\* C4: get answers 404 for an id not stored, 403 to a citizen who does not own
\* the permit, and otherwise returns the stored permit.
C4_GetOutcome ==
    \A u \in users, id \in AfapIds :
        LET r == get_afap(id, u)
            found == find_one(afap, id)
        IN IF found = <<>> THEN r.status = 404
           ELSE IF u.role = "ciudadano" /\ found[1].user_id # u.id THEN r.status = 403
           ELSE r.status = 200 /\ r.body = parse_dates(found[1])

\* C5: updateStatus by a requester who is neither inspector nor administrator
\* is answered 403, and by one of them on an id not stored 404; such a call
\* never reaches the write, and its step changes no permit and sends nothing.
C5_UpdateRefused ==
    [][ /\ (resp'.op = "update" /\ resp'.current_user.role \notin Staff)
            => resp'.status = 403
        /\ (resp'.op = "update" /\ resp'.current_user.role \in Staff
              /\ find_one(afap, resp'.afap_id) = <<>>)
            => resp'.status = 404
        /\ (resp'.op = "update" /\ resp'.status \in {403, 404})
            => (afap' = afap /\ mails' = <<>>)
        /\ \A p \in Procs :
              (req[p] = Idle /\ req'[p].op = "update")
                => /\ req'[p].current_user.role \in Staff
                   /\ find_one(afap, req'[p].afap_id) # <<>> ]_vars

C5_Witness ==
    /\ resp.op = "update"
    /\ resp.status = 403
    /\ find_one(afap, resp.afap_id) # <<>>

\* C6: issueCertificate on a stored permit whose estado is not aprobado is
\* answered 400 whoever asks; that call goes no further, so every log entry
\* written and every certificate rendered is for a permit found aprobado.
C6_NotApprovedInvalidState ==
    [][ /\ (resp'.op = "download" /\ req' = req
              /\ find_one(afap, resp'.afap_id) # <<>>
              /\ find_one(afap, resp'.afap_id)[1].estado # "aprobado")
            => (resp'.status = 400 /\ download_logs' = download_logs)
        /\ \A p \in Procs :
              (req[p] = Idle /\ req'[p].op = "download")
                => find_one(afap, req'[p].afap_id)[1].estado = "aprobado"
        /\ (download_logs' # download_logs \/ (resp'.op = "download" /\ resp'.status = 200))
            => \E p \in Procs : req[p].op = "download" /\ req[p].afap.estado = "aprobado"
      ]_vars

C6_Witness ==
    /\ resp.op = "download"
    /\ resp.status = 400
    /\ resp.current_user.role = "ciudadano"
    /\ find_one(afap, resp.afap_id)[1].user_id # resp.current_user.id

\* C7: issueCertificate on an aprobado permit by a citizen who does not own it
\* is answered 403 and goes no further (no log entry, no certificate); 403 is
\* given to nobody else.
C7_ForeignCitizenForbidden ==
    [][ /\ (resp'.op = "download" /\ req' = req
              /\ find_one(afap, resp'.afap_id) # <<>>
              /\ find_one(afap, resp'.afap_id)[1].estado = "aprobado"
              /\ resp'.current_user.role = "ciudadano"
              /\ find_one(afap, resp'.afap_id)[1].user_id # resp'.current_user.id)
            => (resp'.status = 403 /\ download_logs' = download_logs)
        /\ (resp'.op = "download" /\ resp'.status = 403)
            => /\ resp'.current_user.role = "ciudadano"
               /\ find_one(afap, resp'.afap_id) # <<>>
               /\ find_one(afap, resp'.afap_id)[1].user_id # resp'.current_user.id
        /\ \A p \in Procs :
              (req[p] = Idle /\ req'[p].op = "download")
                => ~ /\ req'[p].current_user.role = "ciudadano"
                     /\ find_one(afap, req'[p].afap_id)[1].user_id # req'[p].current_user.id
      ]_vars

C7_Witness ==
    /\ resp.op = "download"
    /\ resp.status = 403
    /\ find_one(afap, resp.afap_id)[1].estado = "aprobado"

\* C8: the public verification of any stored permit carries none of the
\* requester's fields.
C8_NoSolicitanteFields ==
    \A id \in AfapIds :
        LET r == verificar_certificado_publico(id)
        IN r.status = 200 => DOMAIN r.body \cap SolicitanteFields = {}

C8_Witness ==
    \E i \in 1..Len(afap) :
        /\ afap[i].solicitante_email = "comerciante@email.com"
        /\ afap[i].estado = "aprobado"
        /\ verificar_certificado_publico(afap[i].id).status = 200

\* C9: the public verification answers 404 for an id not stored and otherwise
\* shows the id, numero_afap, estado and observaciones now stored; after an
\* updateStatus to aprobado it shows aprobado.
C9_PublicViewCurrent ==
    /\ \A id \in AfapIds :
          LET r == verificar_certificado_publico(id)
              found == find_one(afap, id)
          IN IF found = <<>> THEN r.status = 404
             ELSE /\ r.status = 200
                  /\ r.body.id = found[1].id
                  /\ r.body.numero_afap = found[1].numero_afap
                  /\ r.body.estado = found[1].estado
                  /\ r.body.observaciones = found[1].observaciones
    /\ (resp.op = "update" /\ resp.status = 200 /\ resp.body.new_estado = "aprobado")
          => verificar_certificado_publico(resp.afap_id).body.estado = "aprobado"

C9_Witness ==
    /\ resp.op = "update"
    /\ resp.status = 200
    /\ resp.body.new_estado = "aprobado"
    /\ resp.body.old_estado = "pendiente"
    /\ verificar_certificado_publico(resp.afap_id).body.observaciones = "Cumple requisitos"

\* C10: a successful updateStatus to aprobado that found the permit in another
\* estado has made exactly two notification attempts, one certificate-ready
\* and one status-changed, both to the email registered for the permit's user_id.
C10_ApprovalNotifications ==
    (/\ resp.op = "update"
     /\ resp.status = 200
     /\ resp.body.new_estado = "aprobado"
     /\ resp.body.old_estado # "aprobado") =>
        LET permit == find_one(afap, resp.afap_id)[1]
            owner == CHOOSE u \in users : u.id = permit.user_id
        IN /\ Len(mails) = 2
           /\ Cardinality({ i \in 1..Len(mails) : mails[i].kind = "certificate" }) = 1
           /\ Cardinality({ i \in 1..Len(mails) : mails[i].kind = "status" }) = 1
           /\ \A i \in 1..Len(mails) : mails[i].to = owner.email

C10_Witness ==
    /\ resp.op = "update"
    /\ resp.status = 200
    /\ resp.body.new_estado = "aprobado"
    /\ resp.body.old_estado = "rechazado"
    /\ Len(mails) = 2

\* C11: a notification attempt that fails leaves updateStatus answering 200
\* with the estado it wrote still stored; the status-changed attempt is made
\* whatever the certificate-ready attempt returned, and every attempt is made
\* in a step that writes no permit, the estado being stored already.
C11_NotificationsBestEffort ==
    [][ mails' # <<>> =>
          /\ afap' = afap
          /\ resp'.op = "update"
          /\ resp'.status = 200
          /\ find_one(afap, resp'.afap_id)[1].estado = resp'.body.new_estado
          /\ find_one(afap', resp'.afap_id)[1].estado = resp'.body.new_estado
          /\ mails'[Len(mails')].kind = "status"
          /\ (resp'.body.new_estado = "aprobado" /\ resp'.body.old_estado # "aprobado")
                => mails'[1].kind = "certificate" ]_vars

C11_Witness ==
    /\ resp.op = "update"
    /\ resp.status = 200
    /\ Len(mails) = 2
    /\ ~mails[1].success
    /\ ~mails[2].success
    /\ find_one(afap, resp.afap_id)[1].estado = "aprobado"

\* C12: in every state every stored permit's estado is one of pendiente,
\* inspeccion, aprobado, rechazado, whatever estado the callers of
\* updateStatus pass.
C12_EstadoInLifecycle ==
    \A i \in 1..Len(afap) : afap[i].estado \in {"pendiente", "inspeccion", "aprobado", "rechazado"}

C14_LogFailureSwallowed ==
    [][ /\ \A p \in Procs :
              (req[p].op = "download" /\ req[p].pc = "log" /\ req'[p] # req[p]) =>
                 /\ req'[p].op = "download"
                 /\ req'[p].pc = "render"
                 /\ resp' = NoResp
        /\ \A p \in Procs :
              (req[p].op = "download" /\ req[p].pc = "render" /\ req'[p] # req[p]) =>
                 /\ resp'.op = "download"
                 /\ resp'.status \in {200, 500}
                 /\ resp'.status = 200 =>
                       resp'.body = generate_afap_certificate(find_one(afap, resp'.afap_id)[1])
        /\ (resp'.op = "download" /\ resp'.status = 500) =>
              \E p \in Procs : req[p].op = "download" /\ req[p].pc = "render" ]_vars

C14_Witness ==
    /\ resp.op = "download"
    /\ resp.status = 200
    /\ ~resp.logged
    /\ download_logs = <<>>
    /\ resp.body.numero_afap = 1001

\* C15: schedule by a requester who is neither inspector nor administrator is
\* answered 403 and stores nothing; by an inspector or administrator it
\* appends exactly one inspection, in estado programada with no resultado and
\* no fecha_realizada, and nothing else ever writes the inspections.
C15_ScheduleByStaffOnly ==
    [][ /\ (resp'.op = "schedule" /\ resp'.current_user.role \notin Staff) =>
              (resp'.status = 403 /\ inspecciones' = inspecciones)
        /\ (resp'.op = "schedule" /\ resp'.current_user.role \in Staff) =>
              /\ resp'.status = 200
              /\ Len(inspecciones') = Len(inspecciones) + 1
              /\ SubSeq(inspecciones', 1, Len(inspecciones)) = inspecciones
              /\ LET stored == inspecciones'[Len(inspecciones')]
                 IN /\ stored.estado = "programada"
                    /\ stored.resultado = None
                    /\ stored.fecha_realizada = None
                    /\ stored.afap_id = resp'.afap_id
                    /\ stored.id = resp'.body.id
                    /\ resp'.body.estado = "programada"
                    /\ resp'.body.resultado = None
        /\ inspecciones' # inspecciones =>
              (resp'.op = "schedule" /\ resp'.status = 200) ]_vars

C15_Witness ==
    /\ resp.op = "schedule"
    /\ resp.status = 200
    /\ resp.current_user.role = "inspector"
    /\ Len(inspecciones) = 2
    /\ inspecciones[2].estado = "programada"

\* The inspections the requester is to see: an inspector those assigned to
\* the requester, an administrator all, a citizen those of the requester's permits.
VisibleInspecciones(u) ==
    LET mine(doc) ==
            IF u.role = "inspector" THEN doc.inspector_id = u.id
            ELSE IF u.role = "administrador" THEN TRUE
            ELSE \E i \in 1..Len(afap) : afap[i].id = doc.afap_id /\ afap[i].user_id = u.id
    IN SelectSeq(inspecciones, mine)

\* C16: in every state the inspection list of every requester is exactly the
\* inspections that requester is to see.
C16_InspectionsByRole ==
    \A u \in users :
        LET r == get_inspecciones(u)
            visible == VisibleInspecciones(u)
        IN /\ r.status = 200
           /\ r.body = [i \in 1..Len(visible) |-> parse_inspeccion_dates(visible[i])]

\* C17: in every state no two users share a cuit_cuil or an email, however
\* the checks and inserts of concurrent registers interleave.
C17_UniqueCuitEmail ==
    \A u, v \in users :
        u # v => (u.cuit_cuil # v.cuit_cuil /\ u.email # v.email)

\* C18: the permit a create returns and stores has estado pendiente, the
\* caller's id as user_id, no observaciones, no inspector_asignado, and a
\* fecha_vencimiento exactly 30 days after its fecha_solicitud.
C18_CreatedPermit ==
    resp.op = "create" =>
        LET permit == resp.body
        IN /\ find_one(afap, permit.id) = <<permit>>
           /\ permit.estado = "pendiente"
           /\ permit.user_id = resp.current_user.id
           /\ permit.observaciones = None
           /\ permit.inspector_asignado = None
           /\ fromisoformat(permit.fecha_vencimiento).t
                = fromisoformat(permit.fecha_solicitud).t + 30 * 86400

\* The step writes the permit afap_id: it is the update_one of an updateStatus
\* call on that id.
WritesPermit(afap_id) ==
    \E p \in Procs : /\ req[p].op = "update"
                     /\ req[p].pc = "write"
                     /\ req[p].afap_id = afap_id
                     /\ req'[p] # req[p]

\* C19: the public verification of a stored permit returns the same payload
\* before and after every step that is not a write of that permit: a create,
\* a scheduling, any step of issueCertificate, any step of an updateStatus on
\* another permit, and the steps of an updateStatus on it other than its write.
\* (The handler reads db.afap alone, so a step that leaves db.afap as it is
\* leaves every payload as it is; the payloads are compared across the steps
\* that change db.afap.)
C19_VerifyUnchangedByOthers ==
    [][ \/ afap' = afap
        \/ \A afap_id \in { afap[i].id : i \in 1..Len(afap) } :
              ~WritesPermit(afap_id) =>
                 verificar_certificado_publico(afap_id)'
                    = verificar_certificado_publico(afap_id) ]_vars

C19_Witness ==
    /\ Len(afap) = 2
    /\ afap[1].estado = "pendiente"
    /\ afap[2].estado = "aprobado"
    /\ resp.op = "update"
    /\ resp.status = 200
    /\ resp.afap_id = afap[2].id
    /\ verificar_certificado_publico(afap[1].id).body.estado = "pendiente"
    /\ verificar_certificado_publico(afap[1].id).body.observaciones = None

\* C20: GET /admin/descargas answers 403 to whoever is not administrator, and
\* to an administrator reports as total the number of DownloadLog entries the
\* downloads have recorded (up to 100) and lists those entries.
C20_AdminDownloadHistory ==
    \A u \in users :
        LET r == get_all_downloads(u)
        IN IF u.role # "administrador" THEN r.status = 403
           ELSE /\ r.status = 200
                /\ Len(download_logs) <= 100 =>
                      /\ r.body.total = Len(download_logs)
                      /\ { r.body.descargas[i] : i \in 1..Len(r.body.descargas) }
                            = { download_logs[i] : i \in 1..Len(download_logs) }

\* C21: an updateStatus by an inspector or administrator on a stored permit,
\* to any of the four lifecycle values, is never refused, its write stores
\* that value whatever estado the permit had, and it answers 200 with that
\* value stored.
C21_NoTransitionGuard ==
    [][ /\ (resp'.op = "update" /\ resp'.current_user.role \in Staff
              /\ find_one(afap, resp'.afap_id) # <<>>) => resp'.status = 200
        /\ \A p \in Procs :
              (req[p].op = "update" /\ req[p].pc = "write" /\ req'[p] # req[p]) =>
                 /\ req'[p].op = "update"
                 /\ req'[p].pc = "notify"
                 /\ find_one(afap', req[p].afap_id)[1].estado = req[p].estado
        /\ (resp'.op = "update" /\ resp'.status = 200) =>
              find_one(afap', resp'.afap_id)[1].estado = resp'.body.new_estado ]_vars

C21_Witness ==
    /\ resp.op = "update"
    /\ resp.status = 200
    /\ resp.body.old_estado = "aprobado"
    /\ resp.body.new_estado = "pendiente"
    /\ find_one(afap, resp.afap_id)[1].estado = "pendiente"

\* C22: the step that ends a successful updateStatus makes exactly one
\* status-changed attempt, to the owner's email, carrying the old estado, the
\* new estado and the observation of the call, whatever the transition; it
\* makes one certificate-ready attempt when the new estado is aprobado and
\* the old one is not, and none otherwise; no other step makes any attempt.
C22_NotificationsPerUpdate ==
    [][ /\ \A p \in Procs :
              (req[p].op = "update" /\ req[p].pc = "notify" /\ req'[p] # req[p]) =>
                 LET owner == CHOOSE u \in users : u.id = find_one(afap, req[p].afap_id)[1].user_id
                     status == { i \in 1..Len(mails') : mails'[i].kind = "status" }
                     certificate == { i \in 1..Len(mails') : mails'[i].kind = "certificate" }
                 IN /\ resp'.op = "update"
                    /\ resp'.status = 200
                    /\ Cardinality(status) = 1
                    /\ \A i \in status :
                          /\ mails'[i].to = owner.email
                          /\ mails'[i].old_status = req[p].old_estado
                          /\ mails'[i].new_status = req[p].estado
                          /\ mails'[i].observaciones = req[p].observaciones
                    /\ Cardinality(certificate) =
                          IF req[p].estado = "aprobado" /\ req[p].old_estado # "aprobado"
                          THEN 1 ELSE 0
                    /\ \A i \in certificate : mails'[i].to = owner.email
                    /\ Len(mails') = Cardinality(status) + Cardinality(certificate)
        /\ mails' # <<>> =>
              \E p \in Procs : req[p].op = "update" /\ req[p].pc = "notify" ]_vars

C22_Witness ==
    /\ resp.op = "update"
    /\ resp.status = 200
    /\ resp.body.old_estado = "aprobado"
    /\ resp.body.new_estado = "aprobado"
    /\ Len(mails) = 1
    /\ mails[1].kind = "status"
    /\ mails[1].observaciones = "Cumple requisitos"

\* C23: the estado of a stored permit changes only in the write of an
\* updateStatus on that permit: not when the clock passes fecha_vencimiento,
\* not in scheduling an inspection, not in any step of issueCertificate; and
\* issueCertificate refuses with 400 only a permit that is not aprobado,
\* whatever the clock shows.
C23_EstadoChangesOnlyByUpdate ==
    [][ /\ Len(afap') >= Len(afap)
        /\ \A i \in 1..Len(afap) :
              afap'[i].estado # afap[i].estado =>
                 /\ WritesPermit(afap[i].id)
                 /\ \E p \in Procs : /\ req[p].op = "update"
                                     /\ req[p].afap_id = afap[i].id
                                     /\ afap'[i].estado = req[p].estado
        /\ (resp'.op = "download" /\ resp'.status = 400) =>
              find_one(afap, resp'.afap_id)[1].estado # "aprobado" ]_vars

C23_Witness ==
    /\ resp.op = "download"
    /\ resp.status = 200
    /\ inspecciones # <<>>
    /\ find_one(afap, resp.afap_id)[1].estado = "aprobado"
    /\ now > fromisoformat(find_one(afap, resp.afap_id)[1].fecha_vencimiento).t

\* The record a request holds while it waits on update_one.
AwaitsWrite(p) == req[p].op = "update" /\ req[p].pc = "write"

\* C24: updateStatus changes nothing but the estado and the observaciones of
\* the permit it names: every other field of that permit and every other
\* stored permit stay as they were, in every step of every interleaving; and
\* two updates waiting to write on different permits leave the same registry
\* in either order of their writes.
C24_UpdateTouchesOnlyItsPermit ==
    [][ /\ Len(afap') >= Len(afap)
        /\ \A i \in 1..Len(afap) :
              \/ afap'[i] = afap[i]
              \/ /\ WritesPermit(afap[i].id)
                 /\ afap'[i] = [afap[i] EXCEPT !.estado = afap'[i].estado,
                                              !.observaciones = afap'[i].observaciones]
        /\ \A p, q \in Procs :
              (AwaitsWrite(p) /\ AwaitsWrite(q) /\ req[p].afap_id # req[q].afap_id) =>
                 update_one(update_one(afap, req[p].afap_id,
                                       set_estado(req[p].estado, req[p].observaciones)),
                            req[q].afap_id, set_estado(req[q].estado, req[q].observaciones))
                 = update_one(update_one(afap, req[q].afap_id,
                                         set_estado(req[q].estado, req[q].observaciones)),
                              req[p].afap_id, set_estado(req[p].estado, req[p].observaciones))
      ]_vars

\* Both updates of an interleaved pair on different permits have written.
C24_Witness ==
    /\ Len(afap) >= 2
    /\ \E p, q \in Procs :
          /\ req[p].op = "update" /\ req[p].pc = "notify"
          /\ req[q].op = "update" /\ req[q].pc = "notify"
          /\ req[p].afap_id # req[q].afap_id
          /\ find_one(afap, req[p].afap_id)[1].estado = "aprobado"
          /\ find_one(afap, req[q].afap_id)[1].estado = "rechazado"
          /\ find_one(afap, req[q].afap_id)[1].observaciones = "Cumple requisitos"

\* C25: of two updateStatus calls interleaved on the same permit neither is
\* refused: each one's write is stored as it asks, so the stored estado is
\* always that of the latest write, and each one answers 200 with the estado
\* it asked for; the stored estado changes in no other step.
C25_LastWriteWins ==
    [][ /\ \A p \in Procs :
              /\ (AwaitsWrite(p) /\ req'[p] # req[p]) =>
                    /\ req'[p] = [req[p] EXCEPT !.pc = "notify"]
                    /\ find_one(afap', req[p].afap_id)[1].estado = req[p].estado
              /\ (req[p].op = "update" /\ req[p].pc = "notify" /\ req'[p] # req[p]) =>
                    /\ resp'.op = "update"
                    /\ resp'.status = 200
                    /\ resp'.afap_id = req[p].afap_id
                    /\ resp'.body.new_estado = req[p].estado
        /\ \A i \in 1..Len(afap) :
              afap'[i].estado # afap[i].estado => WritesPermit(afap[i].id) ]_vars

\* Both calls have answered; the one that answered last wrote first.
C25_Witness ==
    /\ \A p \in Procs : req[p] = Idle
    /\ resp.op = "update"
    /\ resp.status = 200
    /\ resp.body.old_estado = "pendiente"
    /\ resp.body.new_estado = "aprobado"
    /\ find_one(afap, resp.afap_id)[1].estado = "rechazado"

\* C28: no more certificate-ready attempts are made for a permit than the
\* times its stored estado passed from a non-approved value to aprobado.
\* Where only approvals are asked for, that is at most once for a permit: a
\* step that makes a certificate-ready attempt for a permit does not follow
\* a step that made one for the same permit.
C28_CertificateReadyPerApproval ==
    [][ ~ \E i \in 1..Len(mails), j \in 1..Len(mails') :
            /\ mails[i].kind = "certificate"
            /\ mails'[j].kind = "certificate"
            /\ mails'[j].afap_numero = mails[i].afap_numero ]_vars

\* C29: the old estado a call holds, returns and passes to notify is the
\* stored estado of the permit immediately before the call's own write.
C29_OldEstadoBeforeOwnWrite ==
    [][ \A p \in Procs :
          (AwaitsWrite(p) /\ req'[p] # req[p]) =>
             req[p].old_estado = find_one(afap, req[p].afap_id)[1].estado ]_vars

\* C26: every certificate delivered for a permit carries the QR code of
\* {baseURL}/verificar-certificado/{id} with the id of that permit, also
\* when several renders go through the file /tmp/qr_{numero_afap}.png at
\* once.
C26_CertificateEmbedsOwnQr ==
    (resp.op = "download" /\ resp.status = 200) =>
        resp.body.verification_url = <<"FRONTEND_URL", "/verificar-certificado/", resp.afap_id>>

\* C27: the user_id of every stored permit is the id of a stored user whose
\* role is ciudadano, whoever called create.
C27_OwnerIsCitizen ==
    \A i \in 1..Len(afap) :
        \E u \in users : u.id = afap[i].user_id /\ u.role = "ciudadano"

\* C30: a call of issueCertificate that ends in an error, the failure of the
\* rendering after the checks passed included, leaves no DownloadLog entry
\* of its own in the log.
C30_NoLogWithoutCertificate ==
    [][ \A p \in Procs :
          (req[p].op = "download" /\ req'[p] = Idle /\ resp'.status # 200) =>
             ~ ( /\ req[p].logged
                 /\ \E i \in 1..Len(download_logs') :
                       download_logs'[i] =
                          DownloadLog(req[p].current_user, req[p].afap_id, req[p].afap) )
      ]_vars

====
